---- MODULE Spec2Model ----
(***************************************************************************)
(* Model of convert.py: scan the 'audio' directory for mp3 files, extract  *)
(* title / comment / duration from each file, merge with path and size,    *)
(* and dump the records to episodes.yml.                                   *)
(*                                                                         *)
(* Text is modelled as a sequence of one-character strings, so that        *)
(* lower(), endswith(), concatenation and number formatting are computed   *)
(* character by character.  A Python value is None or Str(text).  A Python *)
(* dict is a sequence of <<key, value>> pairs in insertion order.  A float *)
(* number of seconds is a fixed-point number of tenths of a second, or NaN.*)
(***************************************************************************)
EXTENDS Integers, Sequences, FiniteSets, TLC

VARIABLES
    pc,          \* position of the script
    ID3,         \* TRUE iff mutagen was imported (ID3 and MP3 are not None)
    yaml,        \* TRUE iff PyYAML was imported (yaml is not None)
    dirExists,   \* os.path.exists('audio')
    listing,     \* os.listdir('audio'), in directory-listing order
    mp3_files,   \* result of get_mp3_files()
    results,     \* accumulated output records
    idx,         \* 1-based position of the for loop in mp3_files
    doc,         \* episodes.yml on disk
    doc0,        \* episodes.yml as it was when the run started
    opened,      \* TRUE once open("episodes.yml", "w") has been called
    console,     \* lines printed so far
    arg,         \* argument of a stand-alone call of format_duration
    ret          \* its return value

vars == <<pc, ID3, yaml, dirExists, listing, mp3_files, results, idx,
          doc, doc0, opened, console, arg, ret>>

progVars == <<pc, ID3, yaml, dirExists, listing, mp3_files, results, idx,
              doc, doc0, opened, console>>

----------------------------------------------------------------------------
(* Bounds *)

MaxEntries == 3

----------------------------------------------------------------------------
(* Python values *)

None == [tag |-> "None"]

Str(s) == [tag |-> "str", val |-> s]

Float(t) == [tag |-> "float", tenths |-> t]

NaN == [tag |-> "nan"]

----------------------------------------------------------------------------
(* Text *)

UpperChars == <<"A","B","C","D","E","F","G","H","I","J","K","L","M",
                "N","O","P","Q","R","S","T","U","V","W","X","Y","Z">>

LowerChars == <<"a","b","c","d","e","f","g","h","i","j","k","l","m",
                "n","o","p","q","r","s","t","u","v","w","x","y","z">>

LowerChar(c) ==
    IF \E i \in 1..Len(UpperChars) : UpperChars[i] = c
    THEN LowerChars[CHOOSE i \in 1..Len(UpperChars) : UpperChars[i] = c]
    ELSE c

\* str.lower()
Lower(s) == [i \in 1..Len(s) |-> LowerChar(s[i])]

\* str.endswith(suffix)
EndsWith(s, suffix) ==
    /\ Len(s) >= Len(suffix)
    /\ SubSeq(s, Len(s) - Len(suffix) + 1, Len(s)) = suffix

DigitChars == <<"0","1","2","3","4","5","6","7","8","9">>

RECURSIVE NatToStr(_)
NatToStr(n) ==
    IF n < 10 THEN <<DigitChars[n + 1]>>
    ELSE NatToStr(n \div 10) \o <<DigitChars[(n % 10) + 1]>>

\* str(n) for an int
IntToStr(n) == IF n < 0 THEN <<"-">> \o NatToStr(-n) ELSE NatToStr(n)

RECURSIVE ZeroFill(_, _)
ZeroFill(s, width) == IF Len(s) >= width THEN s ELSE ZeroFill(<<"0">> \o s, width)

\* f"{n:02}": minimum width 2, zero filled after the sign
Pad02(n) ==
    IF n < 0 THEN <<"-">> \o ZeroFill(NatToStr(-n), 1)
    ELSE ZeroFill(NatToStr(n), 2)

RECURSIVE GroupNat(_)
GroupNat(n) ==
    IF n < 1000 THEN NatToStr(n)
    ELSE GroupNat(n \div 1000) \o <<",">> \o ZeroFill(NatToStr(n % 1000), 3)

\* "{:,}".format(n)
FormatGrouped(n) == IF n < 0 THEN <<"-">> \o GroupNat(-n) ELSE GroupNat(n)

----------------------------------------------------------------------------
(* Python dict, insertion ordered *)

DictKeys(d) == [i \in 1..Len(d) |-> d[i][1]]

DictHas(d, k) == \E i \in 1..Len(d) : d[i][1] = k

\* d.get(k)
DictGet(d, k) ==
    IF DictHas(d, k) THEN d[CHOOSE i \in 1..Len(d) : d[i][1] = k][2] ELSE None

\* d.setdefault(k, v) instead of d[k] = v : an existing key keeps its value
DictSet_Setdefault(d, k, v) == IF DictHas(d, k) THEN d ELSE Append(d, <<k, v>>)

\* d[k] = v : an existing key keeps its position, a new key goes last
DictSet(d, k, v) ==
    IF DictHas(d, k)
    THEN [i \in 1..Len(d) |-> IF d[i][1] = k THEN <<k, v>> ELSE d[i]]
    ELSE Append(d, <<k, v>>)

----------------------------------------------------------------------------
(* format_duration *)

\* int(x) replaced by round(x)
IntOfFloat_Round(t) == IF t >= 0 THEN (t + 5) \div 10 ELSE -((5 - t) \div 10)

\* int(x) of a float: truncation toward zero
IntOfFloat(t) == IF t >= 0 THEN t \div 10 ELSE -((-t) \div 10)

\* Result of a call: the exception message raised (None if none) and the value
Returned(v) == [exc |-> None, val |-> v]

Raised(msg) == [exc |-> Str(msg), val |-> None]

MsgNaN == <<"c","a","n","n","o","t"," ","c","o","n","v","e","r","t"," ",
            "f","l","o","a","t"," ","N","a","N"," ","t","o"," ",
            "i","n","t","e","g","e","r">>

format_duration(seconds) ==
    IF seconds = None THEN Returned(None)
    ELSE IF seconds = NaN THEN Raised(MsgNaN)
    ELSE LET secs0   == IntOfFloat(seconds.tenths)
             hours   == secs0 \div 3600
             minutes == (secs0 % 3600) \div 60
             secs    == secs0 % 60
         IN  Returned(Str(Pad02(hours) \o <<":">> \o Pad02(minutes)
                          \o <<":">> \o Pad02(secs)))

----------------------------------------------------------------------------
(* The file system seen by get_mp3_files *)

AudioDir == <<"a","u","d","i","o">>

DisplayPrefix == <<"/","a","u","d","i","o","/">>

Mp3Ext == <<".","m","p","3">>

File(name, size) == [name |-> name, kind |-> "file", size |-> size, children |-> <<>>]

Dir(name, children) == [name |-> name, kind |-> "dir", size |-> 4096, children |-> children]

\* Directory entries the listing is drawn from
DirEntries ==
    { File(<<"a",".","M","P","3">>, 1234567),
      File(<<"b",".","t","x","t">>, 999),
      Dir(<<"c",".","m","p","3">>, <<File(<<"d",".","m","p","3">>, 5)>>),
      File(<<"e","p","i","s","o","d","e","1",".","m","p","3">>, 2048),
      File(<<"m","p","3">>, 0) }

\* Listings: sequences of entries with pairwise different names
Listings ==
    UNION { { l \in [1..n -> DirEntries] :
                \A i, j \in 1..n : l[i].name = l[j].name => i = j }
            : n \in 0..MaxEntries }

\* os.path.exists instead of os.path.isfile
IsFile_Exists(entry) == entry.kind \in {"file", "dir"}

\* os.path.isfile
IsFile(entry) == entry.kind = "file"

\* os.path.join(directory, filename)
PathJoin(directory, filename) == directory \o <<"/">> \o filename

MsgNoDir == <<"N","o"," ","s","u","c","h"," ","f","i","l","e"," ","o","r"," ","d","i","r","e","c","t","o","r","y",":"," ","'","a","u","d","i","o","'">>

\* os.listdir(directory)
OsListdir(exists, entries) == IF exists THEN Returned(entries) ELSE Raised(MsgNoDir)

\* the body of the for loop of get_mp3_files, over the entries in order
RECURSIVE ScanEntries(_, _, _)
ScanEntries(directory, entries, acc) ==
    IF entries = <<>> THEN acc
    ELSE LET entry     == Head(entries)
             filename  == entry.name
             file_path == PathJoin(directory, filename)
         IN  ScanEntries(directory, Tail(entries),
                IF IsFile(entry) /\ EndsWith(Lower(filename), Mp3Ext)
                THEN Append(acc, [path     |-> file_path,
                                  filename |-> DisplayPrefix \o filename,
                                  size     |-> entry.size])
                ELSE acc)

\* get_mp3_files without the os.path.exists test
get_mp3_files_NoExistsCheck(directory, exists, entries) ==
    LET ls == OsListdir(exists, entries)
    IN  IF ls.exc # None THEN ls
        ELSE Returned(ScanEntries(directory, ls.val, <<>>))

get_mp3_files(directory, exists, entries) ==
    IF exists
    THEN LET ls == OsListdir(exists, entries)
         IN  IF ls.exc # None THEN ls
             ELSE Returned(ScanEntries(directory, ls.val, <<>>))
    ELSE Returned(<<>>)

----------------------------------------------------------------------------
(* The contents of an mp3 file seen through mutagen *)

MsgNotInstalled == <<"m","u","t","a","g","e","n"," ","n","o","t"," ","i","n","s","t","a","l","l","e","d">>

MsgNoHeader == <<"d","o","e","s","n","'","t"," ","s","t","a","r","t"," ","w","i","t","h"," ","a","n"," ","I","D","3"," ","t","a","g">>

MsgNoSync == <<"c","a","n","'","t"," ","s","y","n","c"," ","t","o"," ","M","P","E","G"," ","f","r","a","m","e">>

Frame(text) == [text |-> text]

\* audio.get('TIT2'): no frame, a frame without text, an empty title, a title
Tit2Values == { None, Frame(<<>>), Frame(<< <<>> >>), Frame(<< <<"T">> >>) }

\* audio.getall('COMM')
CommValues ==
    { <<>>,
      << Frame(<<>>) >>,
      << Frame(<< <<>> >>) >>,
      << Frame(<< <<"C">> >>) >>,
      << Frame(<< <<"C">>, <<"X">> >>), Frame(<< <<"D">> >>) >>,
      << Frame(<<>>), Frame(<< <<"D">> >>) >> }

\* mp3_audio.info: None or an object with a length in seconds
InfoValues ==
    { None, [length |-> Float(37259)], [length |-> NaN] }

\* bool(mp3_audio) and mp3_audio.info
Mp3Views ==
    { [truthy |-> FALSE, info |-> [length |-> Float(37259)]] } \cup
    { [truthy |-> TRUE, info |-> i] : i \in InfoValues }

Content(id3_exc, mp3_exc, tit2, comm, mp3) ==
    [ id3_exc |-> id3_exc,     \* exception raised by ID3(mp3_file), or None
      mp3_exc |-> mp3_exc,     \* exception raised by MP3(mp3_file), or None
      TIT2    |-> tit2,
      COMM    |-> comm,
      mp3_truthy |-> mp3.truthy,
      info    |-> mp3.info ]

\* What a file can hold: no ID3 header, no MPEG frame, or tags and stream info
FileContents ==
    { Content(Str(MsgNoHeader), None, None, <<>>, [truthy |-> FALSE, info |-> None]),
      Content(None, Str(MsgNoSync), Frame(<< <<"T">> >>), <<>>, [truthy |-> FALSE, info |-> None]) }
    \cup { Content(None, None, t, c, m) : t \in Tit2Values, c \in CommValues, m \in Mp3Views }

----------------------------------------------------------------------------
(* get_title_and_comments *)

\* truthiness of None or a str
Truthy(v) == v # None /\ v.val # <<>>

ErrorDict(mp3_file, msg) ==
    << <<"file", Str(mp3_file)>>, <<"title", None>>, <<"comments", None>>,
       <<"duration", None>>, <<"error", Str(msg)>> >>

\* get_title_and_comments whose except clause keeps the fields already read
get_title_and_comments_Partial(mp3_file, c) ==
    IF ~ID3 THEN ErrorDict(mp3_file, MsgNotInstalled)
    ELSE IF c.id3_exc # None THEN ErrorDict(mp3_file, c.id3_exc.val)
    ELSE IF c.mp3_exc # None THEN ErrorDict(mp3_file, c.mp3_exc.val)
    ELSE LET title    == c.TIT2
             comments_frames == c.COMM
             comments == IF Len(comments_frames) > 0 /\ Len(comments_frames[1].text) > 0
                         THEN Str(comments_frames[1].text[1]) ELSE None
             duration == IF c.mp3_truthy /\ c.info # None THEN c.info.length ELSE None
             formatted == format_duration(duration)
             read     == << <<"title", IF title # None /\ Len(title.text) > 0
                                       THEN Str(title.text[1]) ELSE None>>,
                            <<"description", IF Truthy(comments) THEN comments ELSE None>>,
                            <<"duration", formatted.val>> >>
         IN  IF formatted.exc # None THEN Append(read, <<"error", formatted.exc>>)
             ELSE read

get_title_and_comments(mp3_file, c) ==
    IF ~ID3 THEN ErrorDict(mp3_file, MsgNotInstalled)
    ELSE IF c.id3_exc # None THEN ErrorDict(mp3_file, c.id3_exc.val)
    ELSE IF c.mp3_exc # None THEN ErrorDict(mp3_file, c.mp3_exc.val)
    ELSE LET title    == c.TIT2
             comments_frames == c.COMM
             comments == IF Len(comments_frames) > 0 /\ Len(comments_frames[1].text) > 0
                         THEN Str(comments_frames[1].text[1]) ELSE None
             duration == IF c.mp3_truthy /\ c.info # None THEN c.info.length ELSE None
             formatted == format_duration(duration)
         IN  IF formatted.exc # None THEN ErrorDict(mp3_file, formatted.exc.val)
             ELSE << <<"title", IF title # None /\ Len(title.text) > 0
                                THEN Str(title.text[1]) ELSE None>>,
                     <<"description", IF Truthy(comments) THEN comments ELSE None>>,
                     <<"duration", formatted.val>> >>

----------------------------------------------------------------------------
(* yaml.dump *)

SortedKeyOrder == <<"comments", "description", "duration", "error", "file", "length", "title">>

RECURSIVE SortKeys(_, _)
SortKeys(d, order) ==
    IF order = <<>> THEN <<>>
    ELSE (IF DictHas(d, Head(order)) THEN << <<Head(order), DictGet(d, Head(order))>> >> ELSE <<>>)
         \o SortKeys(d, Tail(order))

\* the sequence of mappings written by yaml.dump(data, sort_keys=...)
YamlDump(data, sort_keys) ==
    [i \in 1..Len(data) |-> IF sort_keys THEN SortKeys(data[i], SortedKeyOrder) ELSE data[i]]

MsgWritten == "YAML written to episodes.yml"

MsgInstall == "PyYAML is not installed. Please install it with 'pip install pyyaml'."

Absent == [state |-> "absent", content |-> <<>>]

\* a document left by an earlier run
Stale == [state |-> "yaml",
          content |-> << << <<"title", Str(<<"O">>)>>, <<"file", Str(DisplayPrefix)>> >> >>]

----------------------------------------------------------------------------
(* The script *)

NotCalled == [called |-> FALSE]

Init ==
    /\ pc = "scan"
    /\ ID3 \in BOOLEAN
    /\ yaml \in BOOLEAN
    /\ dirExists \in BOOLEAN
    /\ listing \in Listings
    /\ (~dirExists => listing = <<>>)
    /\ mp3_files = <<>>
    /\ results = <<>>
    /\ idx = 1
    /\ doc0 \in {Absent, Stale}
    /\ doc = doc0
    /\ opened = FALSE
    /\ console = <<>>
    /\ arg = None
    /\ ret = NotCalled

\* mp3_files = get_mp3_files(); results = []
Scan ==
    /\ pc = "scan"
    /\ LET r == get_mp3_files(AudioDir, dirExists, listing)
       IN  IF r.exc # None
           THEN /\ pc' = "crashed"
                /\ UNCHANGED mp3_files
           ELSE /\ pc' = "loop"
                /\ mp3_files' = r.val
    /\ results' = <<>>
    /\ idx' = 1
    /\ UNCHANGED <<ID3, yaml, dirExists, listing, doc, doc0, opened, console, arg, ret>>

\* the loop with a break after a failed extraction
Iterate_Break ==
    /\ pc = "loop"
    /\ idx <= Len(mp3_files)
    /\ \E c \in FileContents :
         LET mp3_info == mp3_files[idx]
             fields0  == get_title_and_comments(mp3_info.path, c)
             fields1  == DictSet(fields0, "file", Str(mp3_info.filename))
             fields2  == DictSet(fields1, "length", Str(FormatGrouped(mp3_info.size)))
         IN  /\ results' = Append(results, fields2)
             /\ idx' = IF DictHas(fields0, "error") THEN Len(mp3_files) + 1 ELSE idx + 1
    /\ UNCHANGED <<pc, ID3, yaml, dirExists, listing, mp3_files, doc, doc0, opened,
                   console, arg, ret>>

\* the loop around an extractor without try/except: an exception ends the run
Iterate_NoCatch ==
    /\ pc = "loop"
    /\ idx <= Len(mp3_files)
    /\ \E c \in FileContents :
         LET mp3_info == mp3_files[idx]
             fields0  == get_title_and_comments(mp3_info.path, c)
             fields1  == DictSet(fields0, "file", Str(mp3_info.filename))
             fields2  == DictSet(fields1, "length", Str(FormatGrouped(mp3_info.size)))
         IN  IF ID3 /\ DictHas(fields0, "error")
             THEN pc' = "crashed" /\ UNCHANGED <<results, idx>>
             ELSE pc' = pc /\ results' = Append(results, fields2) /\ idx' = idx + 1
    /\ UNCHANGED <<ID3, yaml, dirExists, listing, mp3_files, doc, doc0, opened,
                   console, arg, ret>>

\* one iteration of: for mp3_info in mp3_files
Iterate ==
    /\ pc = "loop"
    /\ idx <= Len(mp3_files)
    /\ \E c \in FileContents :
         LET mp3_info == mp3_files[idx]
             fields0  == get_title_and_comments(mp3_info.path, c)
             fields1  == DictSet(fields0, "file", Str(mp3_info.filename))
             fields2  == DictSet(fields1, "length", Str(FormatGrouped(mp3_info.size)))
         IN  results' = Append(results, fields2)
    /\ idx' = idx + 1
    /\ UNCHANGED <<pc, ID3, yaml, dirExists, listing, mp3_files, doc, doc0, opened,
                   console, arg, ret>>

\* the document opened before yaml is tested
OpenDoc_Unchecked ==
    /\ pc = "loop"
    /\ idx > Len(mp3_files)
    /\ opened' = TRUE
    /\ doc' = [state |-> "empty_file", content |-> <<>>]
    /\ pc' = "dump"
    /\ UNCHANGED <<ID3, yaml, dirExists, listing, mp3_files, results, idx, doc0,
                   console, arg, ret>>

\* if yaml is not None: open("episodes.yml", "w", encoding="utf-8")
OpenDoc ==
    /\ pc = "loop"
    /\ idx > Len(mp3_files)
    /\ yaml
    /\ opened' = TRUE
    /\ doc' = [state |-> "empty_file", content |-> <<>>]
    /\ pc' = "dump"
    /\ UNCHANGED <<ID3, yaml, dirExists, listing, mp3_files, results, idx, doc0,
                   console, arg, ret>>

\* yaml.dump(results, f, allow_unicode=True, sort_keys=False), then f is closed
Dump ==
    /\ pc = "dump"
    /\ doc' = [state |-> "yaml", content |-> YamlDump(results, FALSE)]
    /\ pc' = "print"
    /\ UNCHANGED <<ID3, yaml, dirExists, listing, mp3_files, results, idx, doc0,
                   opened, console, arg, ret>>

\* print("YAML written to episodes.yml")
PrintWritten ==
    /\ pc = "print"
    /\ console' = Append(console, MsgWritten)
    /\ pc' = "done"
    /\ UNCHANGED <<ID3, yaml, dirExists, listing, mp3_files, results, idx, doc, doc0,
                   opened, arg, ret>>

\* else: print("PyYAML is not installed. ...")
PrintInstall ==
    /\ pc = "loop"
    /\ idx > Len(mp3_files)
    /\ ~yaml
    /\ console' = Append(console, MsgInstall)
    /\ pc' = "done"
    /\ UNCHANGED <<ID3, yaml, dirExists, listing, mp3_files, results, idx, doc, doc0,
                   opened, arg, ret>>

Next == Scan \/ Iterate \/ OpenDoc \/ Dump \/ PrintWritten \/ PrintInstall

Spec == Init /\ [][Next]_vars

\* The interpreter runs the script to its end: every enabled step is taken
FairSpec == Spec /\ WF_vars(Next)

----------------------------------------------------------------------------
(* Stand-alone calls of format_duration *)

HourSamples == {0, 1, 99, 100}

MinuteSamples == {0, 2, 59}

SecondSamples == {0, 5, 59}

TenthSamples == {0, 5, 9}

FormatArgs ==
    {None, NaN} \cup
    { Float(h * 36000 + m * 600 + s * 10 + f) :
        h \in HourSamples, m \in MinuteSamples, s \in SecondSamples, f \in TenthSamples }

InitFmt ==
    /\ pc = "idle"
    /\ ID3 = FALSE
    /\ yaml = FALSE
    /\ dirExists = FALSE
    /\ listing = <<>>
    /\ mp3_files = <<>>
    /\ results = <<>>
    /\ idx = 1
    /\ doc0 = Absent
    /\ doc = Absent
    /\ opened = FALSE
    /\ console = <<>>
    /\ arg \in FormatArgs
    /\ ret = NotCalled

CallFormatDuration ==
    /\ pc = "idle"
    /\ ret = NotCalled
    /\ ret' = format_duration(arg)
    /\ UNCHANGED <<progVars, arg>>

NextFmt == CallFormatDuration

SpecFmt == InitFmt /\ [][NextFmt]_vars

----------------------------------------------------------------------------
(* Reading formatted text back *)

IsDigit(c) == \E d \in 0..9 : DigitChars[d + 1] = c

DigitVal(c) == CHOOSE d \in 0..9 : DigitChars[d + 1] = c

AllDigits(s) == \A i \in 1..Len(s) : IsDigit(s[i])

RECURSIVE ParseNat(_)
ParseNat(s) ==
    IF s = <<>> THEN 0
    ELSE ParseNat(SubSeq(s, 1, Len(s) - 1)) * 10 + DigitVal(s[Len(s)])

IsNotComma(c) == c # ","

\* s is n written in decimal with a comma before every group of 3 digits
\* counted from the right
IsGroupedFor(s, n) ==
    /\ Len(s) >= 1
    /\ \A p \in 1..Len(s) :
         IF (Len(s) - p) % 4 = 3 THEN s[p] = "," ELSE IsDigit(s[p])
    /\ s[1] # ","
    /\ (Len(s) > 1 => s[1] # "0")
    /\ ParseNat(SelectSeq(s, IsNotComma)) = n

HoursOf(s) == SubSeq(s, 1, Len(s) - 6)

MinutesOf(s) == SubSeq(s, Len(s) - 4, Len(s) - 3)

SecondsOf(s) == SubSeq(s, Len(s) - 1, Len(s))

\* s has the shape H..HH:MM:SS
IsHMS(s) ==
    /\ Len(s) >= 8
    /\ s[Len(s) - 5] = ":"
    /\ s[Len(s) - 2] = ":"
    /\ AllDigits(HoursOf(s)) /\ AllDigits(MinutesOf(s)) /\ AllDigits(SecondsOf(s))
    /\ (Len(HoursOf(s)) > 2 => HoursOf(s)[1] # "0")
    /\ ParseNat(MinutesOf(s)) <= 59
    /\ ParseNat(SecondsOf(s)) <= 59

TotalSecondsOf(s) ==
    ParseNat(HoursOf(s)) * 3600 + ParseNat(MinutesOf(s)) * 60 + ParseNat(SecondsOf(s))

\* the name ends with ".mp3" in any mix of upper and lower case
HasMp3Suffix(name) ==
    /\ Len(name) >= 4
    /\ name[Len(name) - 3] = "."
    /\ name[Len(name) - 2] \in {"m", "M"}
    /\ name[Len(name) - 1] \in {"p", "P"}
    /\ name[Len(name)] = "3"

Qualifies(entry) == entry.kind = "file" /\ HasMp3Suffix(entry.name)

\* positions in the listing of the entries that qualify
QualifyingPositions == { j \in 1..Len(listing) : Qualifies(listing[j]) }

\* position in the listing of the i-th qualifying entry
NthQualifying(i) ==
    CHOOSE j \in QualifyingPositions :
        Cardinality({ k \in QualifyingPositions : k <= j }) = i

HasError(r) == DictHas(r, "error")

LoopFinished == pc \in {"dump", "print", "done"} \/ (pc = "loop" /\ idx > Len(mp3_files))

EpisodeOne == <<"e","p","i","s","o","d","e","1",".","m","p","3">>

UpperA == <<"a",".","M","P","3">>

----------------------------------------------------------------------------
(* Properties *)

\* C1: the number of records accumulated equals the number of candidates the
\* scanner returned, whatever files fail extraction; inside the loop one
\* record has been appended per file already visited, so a failed file never
\* stops the loop.
Completeness ==
    /\ (pc = "loop" => Len(results) = idx - 1 /\ idx <= Len(mp3_files) + 1)
    /\ (LoopFinished => Len(results) = Len(mp3_files))
    /\ (pc # "scan" => Len(mp3_files) = Cardinality(QualifyingPositions))

\* C1 witness: a run that ended with two records, the first of them a failure
CompletenessWitness ==
    /\ pc = "done"
    /\ Len(mp3_files) = 2
    /\ Len(results) = 2
    /\ HasError(results[1])
    /\ ~HasError(results[2])

\* C2: a record either has no error field and carries title, description and
\* duration (each text or null), or has an error field and then title,
\* description and duration are all null (d.get(k) is None), also when the
\* exception came after fields had been read.
Exclusivity ==
    \A i \in 1..Len(results) :
        LET r == results[i]
        IN  IF HasError(r)
            THEN /\ DictGet(r, "error") # None
                 /\ DictGet(r, "title") = None
                 /\ DictGet(r, "description") = None
                 /\ DictGet(r, "duration") = None
            ELSE /\ DictHas(r, "title") /\ DictGet(r, "title").tag \in {"None", "str"}
                 /\ DictHas(r, "description") /\ DictGet(r, "description").tag \in {"None", "str"}
                 /\ DictHas(r, "duration") /\ DictGet(r, "duration").tag \in {"None", "str"}

\* C2 witness: format_duration raised after title and comment had been read
ExclusivityWitness ==
    \E i \in 1..Len(results) : DictGet(results[i], "error") = Str(MsgNaN)

\* C3: an error record has exactly the fields title, description, duration
\* (all null), error, file (display name) and length (grouped size), and the
\* error is "mutagen not installed" when the decoder is absent.
ErrorRecordShape ==
    \A i \in 1..Len(results) :
        LET r == results[i]
        IN  HasError(r) =>
              /\ { DictKeys(r)[k] : k \in 1..Len(r) }
                   = {"title", "description", "duration", "error", "file", "length"}
              /\ DictGet(r, "title") = None
              /\ DictGet(r, "description") = None
              /\ DictGet(r, "duration") = None
              /\ (~ID3 => DictGet(r, "error") = Str(MsgNotInstalled))
              /\ DictGet(r, "file") = Str(mp3_files[i].filename)
              /\ DictGet(r, "length") = Str(FormatGrouped(mp3_files[i].size))

\* C4: every record has its keys in the order title, description, duration,
\* file, length, with error after them when present.
FieldOrder ==
    \A i \in 1..Len(results) :
        DictKeys(results[i]) \in
            { <<"title", "description", "duration", "file", "length">>,
              <<"title", "description", "duration", "file", "length", "error">> }

\* C5: format_duration(None) is None; for a seconds value S >= 0 the result is
\* HH:MM:SS with HH of at least 2 digits (3 or more from 100 hours on), MM and
\* SS of 2 digits and at most 59, and HH*3600 + MM*60 + SS is S truncated to
\* an integer; 3725.9 gives 01:02:05.
DurationFormatting ==
    ret # NotCalled =>
      /\ (arg = None => ret = Returned(None))
      /\ (arg.tag = "float" /\ arg.tenths >= 0 =>
            /\ ret.exc = None
            /\ ret.val.tag = "str"
            /\ IsHMS(ret.val.val)
            /\ 10 * TotalSecondsOf(ret.val.val) <= arg.tenths
            /\ arg.tenths < 10 * TotalSecondsOf(ret.val.val) + 10
            /\ (arg.tenths >= 3600000 => Len(HoursOf(ret.val.val)) >= 3))
      /\ (arg = Float(37259) => ret = Returned(Str(<<"0","1",":","0","2",":","0","5">>)))

\* C5 witness: 100 hours, 2 minutes and 5.9 seconds have been formatted
DurationFormattingWitness ==
    /\ arg = Float(3601259)
    /\ ret = Returned(Str(<<"1","0","0",":","0","2",":","0","5">>))

\* C6: when the input directory does not exist the scanner returns an empty
\* sequence without raising, no record is produced, and with the serializer
\* available the document written holds an empty sequence.
MissingDirectory ==
    ~dirExists =>
      /\ pc # "crashed"
      /\ mp3_files = <<>>
      /\ results = <<>>
      /\ (pc = "done" /\ yaml =>
            /\ doc = [state |-> "yaml", content |-> <<>>]
            /\ console = <<MsgWritten>>)

\* C6 witness: a run without input directory ended, over an older document
MissingDirectoryWitness ==
    /\ ~dirExists
    /\ yaml
    /\ pc = "done"
    /\ doc0 = Stale
    /\ doc # doc0

\* C7: after the scan there is a candidate for a directory entry iff the
\* entry is a regular file whose name ends with .mp3 in any case; every
\* candidate comes from an entry of the directory itself, never from inside
\* a subdirectory; {a.MP3, b.txt, directory c.mp3} gives the one candidate
\* a.MP3.
FilterCorrectness ==
    pc # "scan" =>
      /\ \A j \in 1..Len(listing) :
            Qualifies(listing[j]) <=>
              \E i \in 1..Len(mp3_files) :
                  mp3_files[i].path = AudioDir \o <<"/">> \o listing[j].name
      /\ \A i \in 1..Len(mp3_files) :
            \E j \in 1..Len(listing) :
                mp3_files[i].path = AudioDir \o <<"/">> \o listing[j].name
      /\ Len(mp3_files) = Cardinality(QualifyingPositions)
      /\ ({ listing[j].name : j \in 1..Len(listing) }
             = { UpperA, <<"b",".","t","x","t">>, <<"c",".","m","p","3">> }
          => /\ Len(mp3_files) = 1
             /\ mp3_files[1].path = AudioDir \o <<"/">> \o UpperA)

\* C7 witness: the directory {a.MP3, b.txt, c.mp3/} has been scanned
FilterCorrectnessWitness ==
    /\ pc = "loop"
    /\ Len(listing) = 3
    /\ listing[1].name = <<"c",".","m","p","3">>
    /\ listing[1].kind = "dir"
    /\ listing[2].name = UpperA
    /\ listing[3].name = <<"b",".","t","x","t">>
    /\ Len(mp3_files) = 1

\* C8: the document is opened iff the serializer is available; without it the
\* document stays as it was and the only line printed is the install warning;
\* with it the only line is the confirmation, printed after the dump; at most
\* one line is printed, only after all files were processed, and a finished
\* run has printed exactly one.
SerializerAvailability ==
    /\ Len(console) <= 1
    /\ (console # <<>> => pc = "done" /\ Len(results) = Len(mp3_files))
    /\ (pc = "done" => Len(console) = 1 /\ (opened <=> yaml))
    /\ (opened => yaml)
    /\ (~opened => doc = doc0)
    /\ (~yaml /\ pc = "done" => console = <<MsgInstall>>)
    /\ (yaml /\ console # <<>> =>
          /\ console = <<MsgWritten>>
          /\ opened
          /\ doc = [state |-> "yaml", content |-> results])

\* C8 witness: a run without serializer ended after processing a file
SerializerAvailabilityWitness ==
    /\ ~yaml
    /\ pc = "done"
    /\ Len(results) >= 1
    /\ doc0 = Stale

\* C9: the i-th record is built from the i-th qualifying entry in listing
\* order; its file is /audio/ + the entry's name, also for an error record;
\* its length is the entry's size with a comma every 3 digits from the right
\* (1234567 gives 1,234,567 and 999 gives 999); every record has both.
MergeAndOrder ==
    /\ \A i \in 1..Len(results) :
         LET r == results[i]
             e == listing[NthQualifying(i)]
         IN  /\ DictHas(r, "file")
             /\ DictGet(r, "file") = Str(DisplayPrefix \o e.name)
             /\ DictHas(r, "length")
             /\ DictGet(r, "length").tag = "str"
             /\ IsGroupedFor(DictGet(r, "length").val, e.size)
             /\ (e.size = 1234567 =>
                   DictGet(r, "length") = Str(<<"1",",","2","3","4",",","5","6","7">>))
             /\ (e.size = 2048 => DictGet(r, "length") = Str(<<"2",",","0","4","8">>))
    /\ IsGroupedFor(FormatGrouped(999), 999)
    /\ FormatGrouped(999) = <<"9","9","9">>

\* C9 witness: episode1.mp3 was listed before a.MP3 and a.MP3 failed
MergeAndOrderWitness ==
    /\ pc = "done"
    /\ Len(results) = 2
    /\ DictGet(results[1], "file") = Str(DisplayPrefix \o EpisodeOne)
    /\ DictGet(results[2], "file") = Str(DisplayPrefix \o UpperA)
    /\ HasError(results[2])

\* C10: every run reaches its end, having processed every file and printed
\* the final console line, and never stops on an error raised to the top
\* level.
NormalCompletion ==
    <>(pc = "done" /\ Len(console) = 1 /\ Len(results) = Len(mp3_files))

\* C10 witness: a run ended although both files raised while being decoded
NormalCompletionWitness ==
    /\ pc = "done"
    /\ ID3
    /\ Len(console) = 1
    /\ Len(results) = 2
    /\ DictGet(results[1], "error") = Str(MsgNoHeader)
    /\ DictGet(results[2], "error") = Str(MsgNoSync)

====
